---- MODULE Spec2Model ----
(***************************************************************************)
(* Model of the XML diff engine (server/src/utils/xmldiff.ts) and of the   *)
(* MusicXML overlay projector (server/src/utils/musicxmldiff.ts and its    *)
(* second revision).                                                       *)
(*                                                                         *)
(* An XML document is a tree of elements in document order: a record       *)
(* [name, attrs, text, children], attrs a sequence of <<key, value>>       *)
(* pairs, text the concatenated direct text, children a sequence of        *)
(* elements.  An XPath string is the sequence of its segments.             *)
(***************************************************************************)
EXTENDS Integers, Sequences, FiniteSets, TLC

(* ------------------------------ bounds -------------------------------- *)
MaxKids == 2
MaxCalls == 2

(* ------------------------- sequence helpers --------------------------- *)
Range(s) == {s[i] : i \in 1..Len(s)}

\* const x = value; ... : the rest K of a function body, given a value
With(x, K(_)) == K(x)

\* the rest K of a function body after a call that returned the state r: it
\* is skipped when the call threw
Then(r, K(_)) == IF r.err THEN r ELSE K(r)

RECURSIVE Concat(_)
Concat(ss) == IF ss = <<>> THEN <<>> ELSE Head(ss) \o Concat(Tail(ss))

RECURSIVE Distinct(_)
\* the keys of a JS Map/Set/object filled in this order: first occurrences
Distinct(s) ==
  IF s = <<>> THEN <<>>
  ELSE LET d == Distinct(SubSeq(s, 1, Len(s) - 1))
       IN IF s[Len(s)] \in Range(d) THEN d ELSE Append(d, s[Len(s)])

(* --------------------------- documents -------------------------------- *)
El(name, attrs, text, children) ==
  [name |-> name, attrs |-> attrs, text |-> text, children |-> children]

(* --------------------------- normalization ---------------------------- *)
\* internal node structure: [id, name, attrs, text, children]
UNode(id, name, attrs, text, children) ==
  [id |-> id, name |-> name, attrs |-> attrs, text |-> text, children |-> children]

\* the value JS reads from an array past its end
Undefined == UNode(0, "", <<>>, "", <<>>)

\* the object fast-xml-parser builds for an element keeps one key per child
\* tag name, in order of first appearance, holding that tag's elements in
\* document order
ParserChildren(d) ==
  LET names == Distinct([i \in 1..Len(d.children) |-> d.children[i].name])
  IN Concat([k \in 1..Len(names) |->
               SelectSeq(d.children, LAMBDA c : c.name = names[k])])

RECURSIVE toUNode(_, _)
RECURSIVE toUNodeList(_, _, _)
\* returns [node, nextId]; the id is taken before the children are visited
toUNode(d, nextId0) ==
  With(toUNodeList(ParserChildren(d), nextId0 + 1, <<>>), LAMBDA kids :
    [node |-> UNode(nextId0, d.name, d.attrs, d.text, kids.nodes),
     nextId |-> kids.nextId])

toUNodeList(ds, nextId0, acc) ==
  IF ds = <<>> THEN [nodes |-> acc, nextId |-> nextId0]
  ELSE With(toUNode(Head(ds), nextId0), LAMBDA r :
         toUNodeList(Tail(ds), r.nextId, Append(acc, r.node)))

\* nextId = 1 before every parse
parseXMLToUNode(xml) == toUNode(xml, 1)

(* ------------------------------- helpers ------------------------------ *)
ElemSeg(name) == [kind |-> "elem", name |-> name, pos |-> 0]
AttrSeg(name) == [kind |-> "attr", name |-> name, pos |-> 0]
TextSeg == [kind |-> "text", name |-> "", pos |-> 0]

\* parent === "" ? `/${seg}` : `${parent}/${seg}`
buildXPath(parent, seg) == Append(parent, ElemSeg(seg))

(* ----------------------- attribute records ---------------------------- *)
\* Object.keys(attrs), `k in attrs`, attrs[k]
Keys(attrs) == [i \in 1..Len(attrs) |-> attrs[i][1]]
HasKey(attrs, k) == \E i \in 1..Len(attrs) : attrs[i][1] = k
Val(attrs, k) == attrs[CHOOSE i \in 1..Len(attrs) : attrs[i][1] = k][2]

\* children of one tag name, in the order of the children array
Group(arr, name) == SelectSeq(arr, LAMBDA c : c.name = name)
\* new Set([...ag.keys(), ...bg.keys()])
GroupNames(a, b) ==
  Distinct([i \in 1..Len(a.children) |-> a.children[i].name]
           \o [i \in 1..Len(b.children) |-> b.children[i].name])
\* arr[i] for a 0-based i, undefined past the end
At(arr, i) == IF i < Len(arr) THEN arr[i + 1] ELSE Undefined

(* -------------------------- evaluation state -------------------------- *)
\* The memo tables are module-level Maps; every function below takes the
\* state st = [sm, pm, out, err, v] and returns it updated: sm is
\* subtreeCostMemo, pm is pairCostMemo, out the token array, err is TRUE once
\* a TypeError has been thrown, v the value returned.
EmptyMap == [x \in {} |-> 0]
Put(m, k, val) == (k :> val) @@ m

(* ------------------------ Hungarian algorithm ------------------------- *)
Infinity == 2000000000
INF == 1000000000

RECURSIVE hungarianScan(_, _, _, _)
\* for (let j = 1; j <= n; j++) { ... } of the search loop
hungarianScan(cost, i0, j, s) ==
  IF j > Len(cost) THEN s
  ELSE IF s.used[j] THEN hungarianScan(cost, i0, j + 1, s)
  ELSE LET cur == cost[i0][j] - s.u[i0] - s.v[j]
           s1 == IF cur < s.minv[j]
                 THEN [s EXCEPT !.minv[j] = cur, !.way[j] = s.j0]
                 ELSE s
           s2 == IF s1.minv[j] < s1.delta
                 THEN [s1 EXCEPT !.delta = s1.minv[j], !.j1 = j]
                 ELSE s1
       IN hungarianScan(cost, i0, j + 1, s2)

RECURSIVE hungarianUpdate(_, _, _)
\* for (let j = 0; j <= n; j++) { ... } of the search loop
hungarianUpdate(n, j, s) ==
  IF j > n THEN s
  ELSE IF s.used[j]
       THEN hungarianUpdate(n, j + 1,
              [s EXCEPT !.u[s.p[j]] = @ + s.delta, !.v[j] = @ - s.delta])
       ELSE hungarianUpdate(n, j + 1, [s EXCEPT !.minv[j] = @ - s.delta])

RECURSIVE hungarianSearch(_, _)
\* do { ... } while (p[j0] !== 0)
hungarianSearch(cost, s) ==
  With([s EXCEPT !.used[s.j0] = TRUE, !.delta = Infinity, !.j1 = 0], LAMBDA sa :
    With(hungarianUpdate(Len(cost), 0, hungarianScan(cost, sa.p[sa.j0], 1, sa)),
         LAMBDA sc :
      With([sc EXCEPT !.j0 = sc.j1], LAMBDA sd :
        IF sd.p[sd.j0] # 0 THEN hungarianSearch(cost, sd) ELSE sd)))

RECURSIVE hungarianAugment(_)
\* do { j1 = way[j0]; p[j0] = p[j1]; j0 = j1 } while (j0 !== 0)
hungarianAugment(s) ==
  LET j1 == s.way[s.j0]
      s1 == [s EXCEPT !.p[s.j0] = s.p[j1], !.j0 = j1]
  IN IF j1 # 0 THEN hungarianAugment(s1) ELSE s1

RECURSIVE hungarianRows(_, _, _)
\* for (let i = 1; i <= n; i++) { ... }
hungarianRows(cost, i, s) ==
  IF i > Len(cost) THEN s
  ELSE LET n == Len(cost)
           s0 == [s EXCEPT !.p[0] = i, !.j0 = 0,
                           !.minv = [j \in 0..n |-> Infinity],
                           !.used = [j \in 0..n |-> FALSE]]
       IN hungarianRows(cost, i + 1, hungarianAugment(hungarianSearch(cost, s0)))

\* an assignment that gives no row a column
hungarianNulls(cost) == [r \in 1..Len(cost) |-> 0]

\* an assignment that gives every row its own index as column
hungarianIdentity(cost) == [r \in 1..Len(cost) |-> r]

\* cost is a sequence of n rows of n numbers; the result gives for every row
\* r (1-based) its column (1-based), 0 standing for null
hungarian(cost) ==
  LET n == Len(cost) IN
  IF n = 0 THEN <<>>
  ELSE LET zero == [j \in 0..n |-> 0] IN
       With(hungarianRows(cost, 1,
              [u |-> zero, v |-> zero, p |-> zero, way |-> zero,
               minv |-> zero, used |-> [j \in 0..n |-> FALSE],
               j0 |-> 0, j1 |-> 0, delta |-> Infinity]), LAMBDA s :
         [r \in 1..n |->
            With({j \in 1..n : s.p[j] = r}, LAMBDA cols :
              IF cols = {} THEN 0
              ELSE CHOOSE j \in cols : \A k \in cols : k <= j)])

\* the sum of mat[r][assign[r]] over the rows with a column
RECURSIVE AssignCost(_, _, _)
AssignCost(mat, assign, r) ==
  IF r > Len(assign) THEN 0
  ELSE (IF assign[r] # 0 THEN mat[r][assign[r]] ELSE 0)
       + AssignCost(mat, assign, r + 1)

\* the N x N matrix whose cells were computed row by row
Matrix(cells, N) == [i \in 1..N |-> [j \in 1..N |-> cells[(i - 1) * N + j]]]

(* ---------------------- cost estimation and memo ---------------------- *)
RECURSIVE subtreeCost(_, _)
RECURSIVE subtreeCostChildren(_, _, _)

\* for (const c of n.children) cost += subtreeCost(c)
subtreeCostChildren(cs, cost, st) ==
  IF cs = <<>> THEN [st EXCEPT !.v = cost]
  ELSE Then(subtreeCost(Head(cs), st), LAMBDA r :
         subtreeCostChildren(Tail(cs), cost + r.v, r))

subtreeCost(n, st) ==
  IF st.err THEN st
  ELSE IF n.id = 0 THEN [st EXCEPT !.err = TRUE]
  ELSE IF n.id \in DOMAIN st.sm THEN [st EXCEPT !.v = st.sm[n.id]]
  ELSE Then(subtreeCostChildren(n.children,
              1 + Len(n.attrs) + (IF n.text # "" THEN 1 ELSE 0), st), LAMBDA r :
         [r EXCEPT !.sm = Put(r.sm, n.id, r.v)])

\* the cost of the attribute and content differences of a and b
OwnCost(a, b) ==
  Cardinality({k \in Range(Keys(a.attrs)) \cup Range(Keys(b.attrs)) :
                 \/ ~HasKey(a.attrs, k)
                 \/ ~HasKey(b.attrs, k)
                 \/ Val(a.attrs, k) # Val(b.attrs, k)})
  + (IF a.text # b.text /\ (a.text # "" \/ b.text # "") THEN 1 ELSE 0)

RECURSIVE computeCost(_, _, _)
RECURSIVE computeCostMatrix(_, _, _, _, _)
RECURSIVE computeCostGroups(_, _, _, _, _)

\* the two nested loops filling mat; k counts the cells done
computeCostMatrix(aList, bList, k, cells, st) ==
  LET N == Len(aList) + Len(bList)
      i == k \div N
      j == k % N
  IN IF st.err THEN st
     ELSE IF k = N * N THEN [st EXCEPT !.v = Matrix(cells, N)]
     ELSE Then(IF i < Len(aList) /\ j < Len(bList)
               THEN computeCost(aList[i + 1], bList[j + 1], st)
               ELSE IF i < Len(aList)
               THEN subtreeCost(aList[i + 1], st)
               ELSE subtreeCost(At(bList, j), st), LAMBDA r :
            computeCostMatrix(aList, bList, k + 1, Append(cells, r.v), r))

\* for (const name of new Set([...ag.keys(), ...bg.keys()])) { ... }
computeCostGroups(a, b, names, cost, st) ==
  IF st.err THEN st
  ELSE IF names = <<>> THEN [st EXCEPT !.v = cost]
  ELSE LET aList == Group(a.children, Head(names))
           bList == Group(b.children, Head(names))
       IN IF Len(aList) + Len(bList) = 0
          THEN computeCostGroups(a, b, Tail(names), cost, st)
          ELSE Then(computeCostMatrix(aList, bList, 0, <<>>, st), LAMBDA m :
                 computeCostGroups(a, b, Tail(names),
                   cost + AssignCost(m.v, hungarian(m.v), 1), m))

computeCost(a, b, st) ==
  LET key == <<a.id, b.id>> IN
  IF st.err THEN st
  ELSE IF key \in DOMAIN st.pm THEN [st EXCEPT !.v = st.pm[key]]
  ELSE IF a.name # b.name
       THEN [st EXCEPT !.pm = Put(st.pm, key, INF), !.v = INF]
  ELSE Then(computeCostGroups(a, b, GroupNames(a, b), OwnCost(a, b), st),
            LAMBDA r : [r EXCEPT !.pm = Put(r.pm, key, r.v)])

(* ------------------------------ emit tokens --------------------------- *)
ElementToken(editType, xpath, name) ==
  [editType |-> editType, nodeType |-> "ELEMENT", xpath |-> xpath, name |-> name]

RECURSIVE emitAttrKeys(_, _, _, _, _)
\* the body of the loop of emitAttrDiffs, for the keys left
emitAttrKeys(a, b, path, keys, out) ==
  IF keys = <<>> THEN out
  ELSE LET k == Head(keys)
           xp == Append(path, AttrSeg(k))
           out1 ==
             IF ~HasKey(a, k)
             THEN Append(out, [editType |-> "INSERT", nodeType |-> "ATTRIBUTE",
                               xpath |-> xp, name |-> k, newValue |-> Val(b, k)])
             ELSE IF ~HasKey(b, k)
             THEN Append(out, [editType |-> "DELETE", nodeType |-> "ATTRIBUTE",
                               xpath |-> xp, name |-> k, oldValue |-> Val(a, k)])
             ELSE IF Val(a, k) # Val(b, k)
             THEN Append(out, [editType |-> "CHANGE", nodeType |-> "ATTRIBUTE",
                               xpath |-> xp, name |-> k,
                               oldValue |-> Val(a, k), newValue |-> Val(b, k)])
             ELSE out
       IN emitAttrKeys(a, b, path, Tail(keys), out1)

RECURSIVE emitAttrKeysOldOnInsert(_, _, _, _, _)
\* the loop body filling oldValue instead of newValue in an INSERT token
emitAttrKeysOldOnInsert(a, b, path, keys, out) ==
  IF keys = <<>> THEN out
  ELSE LET k == Head(keys)
           xp == Append(path, AttrSeg(k))
           out1 ==
             IF ~HasKey(a, k)
             THEN Append(out, [editType |-> "INSERT", nodeType |-> "ATTRIBUTE",
                               xpath |-> xp, name |-> k, oldValue |-> Val(b, k)])
             ELSE IF ~HasKey(b, k)
             THEN Append(out, [editType |-> "DELETE", nodeType |-> "ATTRIBUTE",
                               xpath |-> xp, name |-> k, oldValue |-> Val(a, k)])
             ELSE IF Val(a, k) # Val(b, k)
             THEN Append(out, [editType |-> "CHANGE", nodeType |-> "ATTRIBUTE",
                               xpath |-> xp, name |-> k,
                               oldValue |-> Val(a, k), newValue |-> Val(b, k)])
             ELSE out
       IN emitAttrKeysOldOnInsert(a, b, path, Tail(keys), out1)

\* emitAttrDiffs whose INSERT tokens carry oldValue
emitAttrDiffsOldOnInsert(a, b, path, out) ==
  emitAttrKeysOldOnInsert(a, b, path, Distinct(Keys(a) \o Keys(b)), out)

emitAttrDiffs(a, b, path, out) ==
  emitAttrKeys(a, b, path, Distinct(Keys(a) \o Keys(b)), out)

\* emitContentDiff emitting CHANGE for any two nonempty texts
emitContentDiffUncompared(aText, bText, path, out) ==
  LET xp == Append(path, TextSeg)
  IN IF aText = "" /\ bText = "" THEN out
     ELSE IF bText = ""
     THEN Append(out, [editType |-> "DELETE", nodeType |-> "CONTENT",
                       xpath |-> xp, oldValue |-> aText])
     ELSE IF aText = ""
     THEN Append(out, [editType |-> "INSERT", nodeType |-> "CONTENT",
                       xpath |-> xp, newValue |-> bText])
     ELSE Append(out, [editType |-> "CHANGE", nodeType |-> "CONTENT",
                       xpath |-> xp, oldValue |-> aText, newValue |-> bText])

emitContentDiff(aText, bText, path, out) ==
  LET aHas == aText # ""
      bHas == bText # ""
      xp == Append(path, TextSeg)
  IN IF ~aHas /\ ~bHas THEN out
     ELSE IF aHas /\ ~bHas
     THEN Append(out, [editType |-> "DELETE", nodeType |-> "CONTENT",
                       xpath |-> xp, oldValue |-> aText])
     ELSE IF ~aHas /\ bHas
     THEN Append(out, [editType |-> "INSERT", nodeType |-> "CONTENT",
                       xpath |-> xp, newValue |-> bText])
     ELSE IF aText # bText
     THEN Append(out, [editType |-> "CHANGE", nodeType |-> "CONTENT",
                       xpath |-> xp, oldValue |-> aText, newValue |-> bText])
     ELSE out

(* -------------------------------- diffing ----------------------------- *)
RECURSIVE diffNodes(_, _, _, _)
RECURSIVE diffMatrix(_, _, _, _, _)
RECURSIVE diffAssign(_, _, _, _, _, _, _, _)
RECURSIVE diffGroups(_, _, _, _, _)

\* a loop over a group that pushes one token whatever the group's size
RepeatOnce(n, tok) == IF n = 0 THEN <<>> ELSE <<tok>>

\* n tokens of one kind at one path
Repeat(n, tok) == [i \in 1..n |-> tok]

\* the two nested loops filling mat in the mixed case
diffMatrix(aList, bList, k, cells, st) ==
  LET N == Len(aList) + Len(bList)
      i == k \div N
      j == k % N
  IN IF st.err THEN st
     ELSE IF k = N * N THEN [st EXCEPT !.v = Matrix(cells, N)]
     ELSE Then(IF i < Len(aList) /\ j < Len(bList)
               THEN computeCost(aList[i + 1], bList[j + 1], st)
               ELSE IF i < Len(aList)
               THEN subtreeCost(aList[i + 1], st)
               ELSE IF j < Len(bList)
               THEN subtreeCost(bList[j + 1], st)
               ELSE [st EXCEPT !.v = 0], LAMBDA r :
            diffMatrix(aList, bList, k + 1, Append(cells, r.v), r))

\* for (let i = 0; i < assign.length; i++) { ... }, i being 1-based here
diffAssign(aList, bList, xpath, name, mat, assign, i, st) ==
  IF st.err \/ i > Len(assign) THEN st
  ELSE LET j == assign[i]
           path == buildXPath(xpath, name)
           del == ElementToken("DELETE", path, name)
           ins == ElementToken("INSERT", path, name)
       IN diffAssign(aList, bList, xpath, name, mat, assign, i + 1,
            IF j = 0 THEN st
            ELSE IF i <= Len(aList) /\ j <= Len(bList)
            THEN Then(subtreeCost(aList[i], st), LAMBDA s1 :
                   Then(subtreeCost(bList[j], s1), LAMBDA s2 :
                     \* pairCost < delIns
                     IF mat[i][j] < s1.v + s2.v
                     THEN diffNodes(aList[i], bList[j], path, s2)
                     ELSE [s2 EXCEPT !.out = s2.out \o <<del, ins>>]))
            ELSE IF i <= Len(aList)
            THEN [st EXCEPT !.out = Append(st.out, del)]
            ELSE IF j <= Len(bList)
            THEN [st EXCEPT !.out = Append(st.out, ins)]
            ELSE st)

\* for (const name of new Set([...ag.keys(), ...bg.keys()])) { ... }
diffGroups(a, b, xpath, names, st) ==
  IF st.err \/ names = <<>> THEN st
  ELSE LET name == Head(names)
           aList == Group(a.children, name)
           bList == Group(b.children, name)
           path == buildXPath(xpath, name)
       IN diffGroups(a, b, xpath, Tail(names),
            IF Len(aList) = 0 /\ Len(bList) > 0
            THEN [st EXCEPT !.out =
                    st.out \o Repeat(Len(bList), ElementToken("INSERT", path, name))]
            ELSE IF Len(bList) = 0 /\ Len(aList) > 0
            THEN [st EXCEPT !.out =
                    st.out \o Repeat(Len(aList), ElementToken("DELETE", path, name))]
            ELSE Then(diffMatrix(aList, bList, 0, <<>>, st), LAMBDA m :
                   diffAssign(aList, bList, xpath, name, m.v, hungarian(m.v), 1, m)))

diffNodes(a, b, xpath, st) ==
  IF st.err THEN st
  ELSE diffGroups(a, b, xpath, GroupNames(a, b),
         [st EXCEPT !.out =
            emitContentDiff(a.text, b.text, xpath,
              emitAttrDiffs(a.attrs, b.attrs, xpath, st.out))])

(* ------------------------------ public API ---------------------------- *)
\* a clear() that leaves the entries in place
clearKept(memo) == memo

\* subtreeCostMemo.clear(), pairCostMemo.clear()
clear(memo) == EmptyMap

\* the state in which diffing starts: both tables cleared, no token
Start(g) ==
  [sm |-> clear(g.subtreeCostMemo), pm |-> clear(g.pairCostMemo),
   out |-> <<>>, err |-> FALSE, v |-> 0]

\* what a call leaves: the tokens returned unless it threw, the module-level
\* variables as they are then
Outcome(st, nextId1) ==
  [tokens |-> IF st.err THEN <<>> ELSE st.out,
   threw |-> st.err,
   subtreeCostMemo |-> st.sm,
   pairCostMemo |-> st.pm,
   nextId |-> nextId1]

\* computeXMLDiffTokens without the comparison of the root names
computeXMLDiffTokensUnchecked(aXML, bXML, g) ==
  With(parseXMLToUNode(aXML), LAMBDA a :
    With(parseXMLToUNode(bXML), LAMBDA b :
      Outcome(diffNodes(a.node, b.node, <<ElemSeg(a.node.name)>>, Start(g)),
              b.nextId)))

\* g = [subtreeCostMemo, pairCostMemo, nextId] are the module-level
\* variables when the call starts
computeXMLDiffTokens(aXML, bXML, g) ==
  With(parseXMLToUNode(aXML), LAMBDA a :
    With(parseXMLToUNode(bXML), LAMBDA b :
      IF a.node.name # b.node.name
      THEN Outcome([Start(g) EXCEPT !.out =
                      << ElementToken("DELETE", <<ElemSeg(a.node.name)>>, a.node.name),
                         ElementToken("INSERT", <<ElemSeg(b.node.name)>>, b.node.name) >>],
                   b.nextId)
      ELSE Outcome(diffNodes(a.node, b.node, <<ElemSeg(a.node.name)>>, Start(g)),
                   b.nextId)))

(* --------------------------- input documents -------------------------- *)
\* sequences over S of length at most n
SeqsUpTo(S, n) == UNION {[1..k -> S] : k \in 0..n}

ChildKinds ==
  { El("note", <<>>, "", <<>>),
    El("note", << <<"id", "1">> >>, "A", <<>>),
    El("note", << <<"id", "2">> >>, "B", <<>>),
    El("note", <<>>, "", << El("pitch", <<>>, "C", <<>>) >>),
    El("pitch", <<>>, "C", <<>>) }

RootNames == {"score", "part"}

Docs == {El(r, <<>>, "", ks) : r \in RootNames, ks \in SeqsUpTo(ChildKinds, MaxKids)}

NoDoc == El("", <<>>, "", <<>>)

\* the documents of the specification that makes several calls
SeqDocs == {d \in Docs : Len(d.children) <= 1}

(* ------------------------- XPath evaluation --------------------------- *)
\* An element of a document is addressed by the child indices leading to it
\* from the root element, <<>> being the root element itself.
RECURSIVE NodeAt(_, _)
NodeAt(doc, addr) ==
  IF addr = <<>> THEN doc ELSE NodeAt(doc.children[Head(addr)], Tail(addr))

\* the location step /name or /name[pos] taken from one context element
StepFrom(doc, ctx, seg) ==
  LET kids == NodeAt(doc, ctx).children
      same == SelectSeq([i \in 1..Len(kids) |-> i], LAMBDA i : kids[i].name = seg.name)
  IN IF seg.pos = 0 THEN [k \in 1..Len(same) |-> Append(ctx, same[k])]
     ELSE IF seg.pos <= Len(same) THEN << Append(ctx, same[seg.pos]) >>
     ELSE <<>>

RECURSIVE SelectFrom(_, _, _)
SelectFrom(doc, ctxs, path) ==
  IF path = <<>> THEN ctxs
  ELSE SelectFrom(doc,
         Concat([k \in 1..Len(ctxs) |-> StepFrom(doc, ctxs[k], Head(path))]),
         Tail(path))

\* the elements an absolute element path selects, in document order
Select(doc, path) ==
  IF path = <<>> THEN <<>>
  ELSE IF Head(path).name = doc.name /\ Head(path).pos \in {0, 1}
       THEN SelectFrom(doc, << <<>> >>, Tail(path))
       ELSE <<>>

\* the element part of a token's XPath: without /@name or /text()
ElementPath(xpath) == SelectSeq(xpath, LAMBDA seg : seg.kind = "elem")

(* ========================= overlay projector ========================== *)
COLOR_INSERT == "#00FF00"
COLOR_DELETE == "#FF0000"
COLOR_CHANGE == "#FFFF00"

COLORABLE_ELEMENTS ==
  {"note", "direction", "harmony", "backup", "forward", "attributes",
   "clef", "key", "time", "part", "measure", "rest"}

\* Element | null: the empty sequence is null, <<addr>> is the element at addr
Null == <<>>
Elem(addr) == <<addr>>

\* a setAttribute that adds the attribute without looking for an existing one
SetAttrAppend(attrs, k, val) == Append(attrs, <<k, val>>)

\* el.setAttribute(k, val) on an attribute list: replaces in place or appends
SetAttr(attrs, k, val) ==
  IF HasKey(attrs, k)
  THEN [i \in 1..Len(attrs) |-> IF attrs[i][1] = k THEN <<k, val>> ELSE attrs[i]]
  ELSE Append(attrs, <<k, val>>)

RECURSIVE SetAttrAt(_, _, _, _)
SetAttrAt(doc, addr, k, val) ==
  IF addr = <<>> THEN [doc EXCEPT !.attrs = SetAttr(doc.attrs, k, val)]
  ELSE [doc EXCEPT !.children[Head(addr)] = SetAttrAt(@, Tail(addr), k, val)]

\* if (el) el.setAttribute("color", color)
setColor(doc, el, color) ==
  IF el = Null THEN doc ELSE SetAttrAt(doc, el[1], "color", color)

RECURSIVE findColorableParent(_, _)
\* walks el, its ancestors, then the document node, whose name is not colorable
findColorableParent(doc, el) ==
  IF el = Null THEN Null
  ELSE IF NodeAt(doc, el[1]).name \in COLORABLE_ELEMENTS THEN el
  ELSE IF el[1] = <<>> THEN Null
  ELSE findColorableParent(doc, Elem(SubSeq(el[1], 1, Len(el[1]) - 1)))

\* a path with a step below a text or attribute node selects nothing
SelectClean(doc, path) ==
  IF \A i \in 1..Len(path) : path[i].kind = "elem" THEN Select(doc, path) ELSE <<>>

\* xpathStr.replace(/\/@.*$|\/text\(\)$/, ""): cut at the first /@, or drop a
\* final /text()
CleanedPath(xpath) ==
  LET ats == {i \in 1..Len(xpath) : xpath[i].kind = "attr"} IN
  IF ats # {}
  THEN SubSeq(xpath, 1, (CHOOSE i \in ats : \A k \in ats : i <= k) - 1)
  ELSE IF xpath # <<>> /\ xpath[Len(xpath)].kind = "text"
  THEN SubSeq(xpath, 1, Len(xpath) - 1)
  ELSE xpath

findElementFromXPath(doc, xpathStr) ==
  LET nodes == SelectClean(doc, CleanedPath(xpathStr))
  IN IF Len(nodes) > 0 THEN Elem(nodes[1]) ELSE Null

isColorable(doc, el) ==
  el # Null /\ NodeAt(doc, el[1]).name \in COLORABLE_ELEMENTS

\* the body of the loop over the tokens; s = [oldDoc, newDoc, unusedTokens]
processToken(token, s) ==
  LET oldEl == findElementFromXPath(s.oldDoc, token.xpath)
      newEl == findElementFromXPath(s.newDoc, token.xpath)
      unused == [s EXCEPT !.unusedTokens = Append(@, token)]
  IN IF token.nodeType = "ELEMENT" /\ token.editType = "INSERT"
     THEN IF isColorable(s.newDoc, newEl)
          THEN [s EXCEPT !.newDoc = setColor(@, newEl, COLOR_INSERT)]
          ELSE unused
     ELSE IF token.nodeType = "ELEMENT" /\ token.editType = "DELETE"
     THEN IF isColorable(s.oldDoc, oldEl)
          THEN [s EXCEPT !.oldDoc = setColor(@, oldEl, COLOR_DELETE)]
          ELSE unused
     ELSE LET oldParent == findColorableParent(s.oldDoc, oldEl)
              newParent == findColorableParent(s.newDoc, newEl)
              s1 == IF oldParent # Null
                    THEN [s EXCEPT !.oldDoc = setColor(@, oldParent, COLOR_CHANGE)]
                    ELSE s
              s2 == IF newParent # Null
                    THEN [s1 EXCEPT !.newDoc = setColor(@, newParent, COLOR_CHANGE)]
                    ELSE s1
          IN IF oldParent # Null \/ newParent # Null THEN s2
             ELSE [s2 EXCEPT !.unusedTokens = Append(@, token)]

RECURSIVE processTokensReversed(_, _)
\* the loop taking the tokens from the last to the first
processTokensReversed(toks, s) ==
  IF toks = <<>> THEN s
  ELSE processToken(Head(toks), processTokensReversed(Tail(toks), s))

RECURSIVE processTokensFatal(_, _)
\* the loop given up at the first token that colors nothing
processTokensFatal(toks, s) ==
  IF toks = <<>> THEN s
  ELSE With(processToken(Head(toks), s), LAMBDA s1 :
         IF Len(s1.unusedTokens) > Len(s.unusedTokens) THEN s1
         ELSE processTokensFatal(Tail(toks), s1))

RECURSIVE processTokens(_, _)
processTokens(toks, s) ==
  IF toks = <<>> THEN s ELSE processTokens(Tail(toks), processToken(Head(toks), s))

\* musicxmldiff.ts; the documents are parsed, colored and serialized again
processMusicXMLDiff(oldXmlStr, newXmlStr, toks) ==
  LET s == processTokens(toks, [oldDoc |-> oldXmlStr, newDoc |-> newXmlStr,
                                unusedTokens |-> <<>>])
  IN [oldXml |-> s.oldDoc, newXml |-> s.newDoc, unusedTokens |-> s.unusedTokens]

(* ------------------- the projector's second revision ------------------ *)
\* .replace(/\/@[^/]+$/g, "").replace(/\/text\(\)$/g, "")
CleanedPath_r2(xpath) ==
  LET noAttr == IF xpath # <<>> /\ xpath[Len(xpath)].kind = "attr"
                THEN SubSeq(xpath, 1, Len(xpath) - 1) ELSE xpath
  IN IF noAttr # <<>> /\ noAttr[Len(noAttr)].kind = "text"
     THEN SubSeq(noAttr, 1, Len(noAttr) - 1) ELSE noAttr

\* the first selected node that is an element
findElementFromXPath_r2(doc, xpathStr) ==
  LET nodes == SelectClean(doc, CleanedPath_r2(xpathStr))
  IN IF Len(nodes) > 0 THEN Elem(nodes[1]) ELSE Null

\* as findColorableParent, with the test current.nodeType === 1 added
findColorableParent_r2(doc, el) == findColorableParent(doc, el)

\* findColorableParent(el) || (el?.nodeType === 1 ? el : null)
ParentOrSelf_r2(doc, el) ==
  IF findColorableParent_r2(doc, el) # Null THEN findColorableParent_r2(doc, el) ELSE el

processToken_r2(token, s) ==
  LET oldEl == findElementFromXPath_r2(s.oldDoc, token.xpath)
      newEl == findElementFromXPath_r2(s.newDoc, token.xpath)
      oldParent == ParentOrSelf_r2(s.oldDoc, oldEl)
      newParent == ParentOrSelf_r2(s.newDoc, newEl)
      colorOld(c) == IF oldParent # Null THEN setColor(s.oldDoc, oldParent, c) ELSE s.oldDoc
      colorNew(c) == IF newParent # Null THEN setColor(s.newDoc, newParent, c) ELSE s.newDoc
      r == IF token.nodeType = "ELEMENT"
           THEN IF token.editType = "INSERT"
                THEN [oldDoc |-> s.oldDoc, newDoc |-> colorNew(COLOR_INSERT),
                      colored |-> newParent # Null]
                ELSE IF token.editType = "DELETE"
                THEN [oldDoc |-> colorOld(COLOR_DELETE), newDoc |-> s.newDoc,
                      colored |-> oldParent # Null]
                ELSE [oldDoc |-> s.oldDoc, newDoc |-> s.newDoc, colored |-> FALSE]
           ELSE [oldDoc |-> colorOld(COLOR_CHANGE), newDoc |-> colorNew(COLOR_CHANGE),
                 colored |-> oldParent # Null \/ newParent # Null]
  IN [oldDoc |-> r.oldDoc, newDoc |-> r.newDoc,
      unusedTokens |-> IF r.colored THEN s.unusedTokens
                       ELSE Append(s.unusedTokens, token)]

RECURSIVE processTokens_r2(_, _)
processTokens_r2(toks, s) ==
  IF toks = <<>> THEN s
  ELSE processTokens_r2(Tail(toks), processToken_r2(Head(toks), s))

processMusicXMLDiff_r2(oldXmlStr, newXmlStr, toks) ==
  LET s == processTokens_r2(toks, [oldDoc |-> oldXmlStr, newDoc |-> newXmlStr,
                                   unusedTokens |-> <<>>])
  IN [oldXml |-> s.oldDoc, newXml |-> s.newDoc, unusedTokens |-> s.unusedTokens]

(* ----------------------- projector's inputs --------------------------- *)
MaxTokens == 2

OverlayDocs ==
  { El("score", <<>>, "",
       << El("note", <<>>, "A", <<>>),
          El("note", <<>>, "", << El("pitch", <<>>, "C", <<>>) >>),
          El("pitch", <<>>, "C", <<>>) >>),
    El("score", <<>>, "",
       << El("note", << <<"color", "#0000FF">> >>, "",
             << El("pitch", <<>>, "C", <<>>) >>) >>) }

OverlayPaths ==
  { << ElemSeg("score"), ElemSeg("note") >>,
    << ElemSeg("score"), [kind |-> "elem", name |-> "note", pos |-> 2] >>,
    << ElemSeg("score"), ElemSeg("note"), ElemSeg("pitch") >>,
    << ElemSeg("score"), ElemSeg("pitch") >> }

OverlayTokens ==
  UNION { { ElementToken("INSERT", xp, xp[Len(xp)].name),
            ElementToken("DELETE", xp, xp[Len(xp)].name),
            ElementToken("CHANGE", xp, xp[Len(xp)].name),
            [editType |-> "INSERT", nodeType |-> "ATTRIBUTE",
             xpath |-> Append(xp, AttrSeg("id")), name |-> "id", newValue |-> "1"],
            [editType |-> "DELETE", nodeType |-> "CONTENT",
             xpath |-> Append(xp, TextSeg), oldValue |-> "C"],
            [editType |-> "CHANGE", nodeType |-> "CONTENT",
             xpath |-> Append(xp, TextSeg), oldValue |-> "C", newValue |-> "D"] }
          : xp \in OverlayPaths }

(* ------------------------------- state -------------------------------- *)
VARIABLES
  aXML, bXML,          \* the arguments of the last computeXMLDiffTokens call
  tokens, threw,       \* what that call returned, or that it threw
  subtreeCostMemo, pairCostMemo, nextId,   \* module-level state of xmldiff.ts
  calls,               \* the number of calls made
  leftover,            \* the memo tables held entries when the last call began
  afterThrow,          \* the call before the last one threw
  oldXmlStr, newXmlStr, inTokens,   \* the arguments of processMusicXMLDiff
  oldXml, newXml, unusedTokens,     \* what it returned
  rev,                 \* the revision of the projector that ran, 0 for none
  fn, arg, ret,        \* the cost function last called, its arguments, its result
  costCalls            \* the number of calls of the cost functions

diffVars == <<aXML, bXML, tokens, threw, subtreeCostMemo, pairCostMemo, nextId,
              calls, leftover, afterThrow>>
overlayVars == <<oldXmlStr, newXmlStr, inTokens, oldXml, newXml, unusedTokens, rev>>
costVars == <<fn, arg, ret, costCalls>>
vars == <<diffVars, overlayVars, costVars>>

NoCall ==
  /\ tokens = <<>> /\ threw = FALSE
  /\ subtreeCostMemo = EmptyMap /\ pairCostMemo = EmptyMap /\ nextId = 1
  /\ calls = 0 /\ leftover = FALSE /\ afterThrow = FALSE

NoOverlay ==
  /\ oldXml = NoDoc /\ newXml = NoDoc /\ unusedTokens = <<>> /\ rev = 0

NoCost ==
  /\ fn = "" /\ arg = <<>> /\ ret = [v |-> 0, err |-> FALSE] /\ costCalls = 0

InitDiff(D) ==
  /\ aXML \in D /\ bXML \in D
  /\ NoCall /\ NoCost
  /\ oldXmlStr = NoDoc /\ newXmlStr = NoDoc /\ inTokens = <<>>
  /\ NoOverlay

Globals ==
  [subtreeCostMemo |-> subtreeCostMemo, pairCostMemo |-> pairCostMemo, nextId |-> nextId]

FreshGlobals ==
  [subtreeCostMemo |-> EmptyMap, pairCostMemo |-> EmptyMap, nextId |-> 1]

\* one call of the public API on the documents a and b
Call(a, b) ==
  With(computeXMLDiffTokens(a, b, Globals), LAMBDA r :
  /\ aXML' = a /\ bXML' = b
  /\ tokens' = r.tokens /\ threw' = r.threw
  /\ subtreeCostMemo' = r.subtreeCostMemo
  /\ pairCostMemo' = r.pairCostMemo
  /\ nextId' = r.nextId
  /\ calls' = calls + 1
  /\ leftover' = (DOMAIN subtreeCostMemo # {} \/ DOMAIN pairCostMemo # {})
  /\ afterThrow' = threw
  /\ UNCHANGED <<overlayVars, costVars>>)

\* the first call, on the documents chosen initially
ComputeXMLDiffTokens == calls = 0 /\ Call(aXML, bXML)

\* a later call in the same process
ComputeAgain == \E a \in SeqDocs, b \in SeqDocs :
                   calls >= 1 /\ calls < MaxCalls /\ Call(a, b)

Init == InitDiff(Docs)
Next == ComputeXMLDiffTokens
Spec == Init /\ [][Next]_vars

InitSeq == InitDiff(SeqDocs)
NextSeq == ComputeXMLDiffTokens \/ ComputeAgain
SpecSeq == InitSeq /\ [][NextSeq]_vars

\* the projector applied to two documents and a token list
Overlay(r, n) ==
  /\ rev = 0
  /\ oldXml' = r.oldXml /\ newXml' = r.newXml
  /\ unusedTokens' = r.unusedTokens
  /\ rev' = n
  /\ UNCHANGED <<oldXmlStr, newXmlStr, inTokens, diffVars, costVars>>

ProcessMusicXMLDiff ==
  Overlay(processMusicXMLDiff(oldXmlStr, newXmlStr, inTokens), 1)

ProcessMusicXMLDiff_r2 ==
  Overlay(processMusicXMLDiff_r2(oldXmlStr, newXmlStr, inTokens), 2)

InitOverlay ==
  /\ oldXmlStr \in OverlayDocs /\ newXmlStr \in OverlayDocs
  /\ inTokens \in SeqsUpTo(OverlayTokens, MaxTokens)
  /\ NoOverlay
  /\ aXML = NoDoc /\ bXML = NoDoc /\ NoCall /\ NoCost
NextOverlay == ProcessMusicXMLDiff \/ ProcessMusicXMLDiff_r2
SpecOverlay == InitOverlay /\ [][NextOverlay]_vars

\* the pipeline: the projector applied to the documents that were diffed and
\* to the tokens the diff returned
Pipeline(r, n) ==
  /\ calls > 0 /\ ~threw /\ rev = 0
  /\ oldXmlStr' = aXML /\ newXmlStr' = bXML /\ inTokens' = tokens
  /\ oldXml' = r.oldXml /\ newXml' = r.newXml
  /\ unusedTokens' = r.unusedTokens
  /\ rev' = n
  /\ UNCHANGED <<diffVars, costVars>>

ProjectDiff == Pipeline(processMusicXMLDiff(aXML, bXML, tokens), 1)

ProjectDiff_r2 == Pipeline(processMusicXMLDiff_r2(aXML, bXML, tokens), 2)

InitPipeline == InitDiff(Docs)
NextPipeline == ComputeXMLDiffTokens \/ ProjectDiff \/ ProjectDiff_r2
SpecPipeline == InitPipeline /\ [][NextPipeline]_vars

(* ----------- the cost functions during one call of the diff ----------- *)
MaxCostCalls == 2

\* the documents whose trees the cost functions are called on
CostDocs == {d \in Docs : d.name = "score"}

RECURSIVE Nodes(_)
\* the nodes of a tree
Nodes(n) == {n} \cup UNION {Nodes(n.children[i]) : i \in 1..Len(n.children)}

\* the two trees of the call: const a = parseXMLToUNode(aXML), b likewise
TreeA == parseXMLToUNode(aXML).node
TreeB == parseXMLToUNode(bXML).node

\* the state a cost function runs in: the two tables as they are
CostState ==
  [sm |-> subtreeCostMemo, pm |-> pairCostMemo, out |-> <<>>, err |-> FALSE, v |-> 0]

\* a call f(args) of a cost function that ends in the state st
CostCall(f, args, st) ==
  /\ costCalls < MaxCostCalls
  /\ fn' = f /\ arg' = args
  /\ ret' = [v |-> IF st.err THEN 0 ELSE st.v, err |-> st.err]
  /\ subtreeCostMemo' = st.sm /\ pairCostMemo' = st.pm
  /\ costCalls' = costCalls + 1
  /\ UNCHANGED <<aXML, bXML, tokens, threw, nextId, calls, leftover, afterThrow,
                 overlayVars>>

\* subtreeCost(n) for a node of either tree
SubtreeCost ==
  \E n \in Nodes(TreeA) \cup Nodes(TreeB) :
    CostCall("subtreeCost", <<n>>, subtreeCost(n, CostState))

\* computeCost(a, b) for a node of the old tree and a node of the new tree
ComputeCost ==
  \E a \in Nodes(TreeA), b \in Nodes(TreeB) :
    CostCall("computeCost", <<a, b>>, computeCost(a, b, CostState))

InitCost == InitDiff(CostDocs)
NextCost == SubtreeCost \/ ComputeCost
SpecCost == InitCost /\ [][NextCost]_vars

(* --------------------- hungarian on its own --------------------------- *)
MaxDim == 3

\* the entries of a matrix of dimension n: three costs up to dimension 3,
\* two above it, which keeps the number of matrices small
Entries(n) == IF n <= 3 THEN 0..2 ELSE 0..1

\* the square matrices of non-negative costs
Matrices ==
  UNION { [1..n -> [1..n -> Entries(n)]] : n \in 1..MaxDim }

\* hungarian(cost) for the matrix chosen initially
Hungarian ==
  /\ fn = "" /\ arg # <<>>
  /\ fn' = "hungarian"
  /\ ret' = [v |-> hungarian(arg[1]), err |-> FALSE]
  /\ costCalls' = costCalls + 1
  /\ UNCHANGED <<arg, diffVars, overlayVars>>

InitHungarian ==
  /\ \E m \in Matrices : arg = <<m>>
  /\ fn = "" /\ ret = [v |-> 0, err |-> FALSE] /\ costCalls = 0
  /\ aXML = NoDoc /\ bXML = NoDoc /\ NoCall
  /\ oldXmlStr = NoDoc /\ newXmlStr = NoDoc /\ inTokens = <<>>
  /\ NoOverlay
NextHungarian == Hungarian
SpecHungarian == InitHungarian /\ [][NextHungarian]_vars

Done == calls > 0
Returned == Done /\ ~threw
TokenSet == Range(tokens)

(* ======================= properties of the diff ======================= *)
HasDescendants(d) == \E i \in 1..Len(d.children) : d.children[i].children # <<>>
SameNameSiblings(d) ==
  \E i, j \in 1..Len(d.children) : i # j /\ d.children[i].name = d.children[j].name

\* C1 (identity): a call on two equal documents returns the empty token list.
C1_Identity == (Done /\ aXML = bXML) => (~threw /\ tokens = <<>>)

\* C2 (no failure on well-formed input): a call on two well-formed documents
\* returns a token list, it never throws.
C2_NeverThrows == Done => ~threw

\* the document a token's XPath has to resolve in
NeedsOld(t) == t.editType \in {"DELETE", "CHANGE"}
NeedsNew(t) == t.editType \in {"INSERT", "CHANGE"}

\* C3 (token validity): the element part of every token's XPath selects
\* exactly one element of the old document for DELETE, of the new document
\* for INSERT, of both for CHANGE.
C3_TokenValidity ==
  Returned =>
    \A t \in TokenSet :
      /\ NeedsOld(t) => Len(Select(aXML, ElementPath(t.xpath))) = 1
      /\ NeedsNew(t) => Len(Select(bXML, ElementPath(t.xpath))) = 1

\* the sibling list a token touching a child of the root is placed in
SideDoc(t) ==
  IF t.nodeType = "ELEMENT" /\ t.editType = "INSERT" THEN bXML ELSE aXML
SameName(d, name) == Group(d.children, name)

\* C4 (positional segments): in a token touching a child of the root the
\* child's segment is /name when the child is the only one of its name in its
\* sibling list and /name[k], k in 1..n, when there are n > 1 of them; a
\* content token with an old value then addresses the k-th of them, the one
\* holding that text.
C4_PositionalSegments ==
  (Returned /\ aXML.name = bXML.name) =>
    \A t \in TokenSet :
      LET ep == ElementPath(t.xpath) IN
      Len(ep) = 2 =>
        LET same == SameName(SideDoc(t), ep[2].name)
        IN /\ Len(same) = 1 => ep[2].pos = 0
           /\ Len(same) > 1 => ep[2].pos \in 1..Len(same)
           /\ (Len(same) > 1 /\ ep[2].pos \in 1..Len(same)
                 /\ t.nodeType = "CONTENT" /\ NeedsOld(t))
                => same[ep[2].pos].text = t.oldValue

\* C5 (statelessness): whatever calls were made before, a call returns what
\* the same call returns in a fresh process.
C5_Stateless ==
  Done =>
    With(computeXMLDiffTokens(aXML, bXML, FreshGlobals), LAMBDA fresh :
      tokens = fresh.tokens /\ threw = fresh.threw)

C5_Witness ==
  calls >= 2 /\ leftover /\ afterThrow /\ ~threw /\ tokens # <<>>

\* C6 (no phantom edits): no CHANGE token has equal old and new values.
C6_NoPhantomChange ==
  Returned => \A t \in TokenSet : t.editType = "CHANGE" => t.oldValue # t.newValue

C6_Witness ==
  /\ Returned
  /\ \E t \in TokenSet : t.editType = "CHANGE" /\ t.nodeType = "CONTENT"
  /\ \E t \in TokenSet : t.editType = "CHANGE" /\ t.nodeType = "ATTRIBUTE"
  /\ \E i \in 1..Len(aXML.children), j \in 1..Len(bXML.children) :
        aXML.children[i].text # "" /\ aXML.children[i].text = bXML.children[j].text

\* C7 (root rename): when the root names differ the call returns exactly the
\* DELETE of the old root and the INSERT of the new root, nothing else.
C7_RootRename ==
  (Done /\ aXML.name # bXML.name) =>
    /\ ~threw
    /\ tokens = << ElementToken("DELETE", <<ElemSeg(aXML.name)>>, aXML.name),
                   ElementToken("INSERT", <<ElemSeg(bXML.name)>>, bXML.name) >>

C7_Witness ==
  /\ Done /\ aXML.name # bXML.name /\ Len(tokens) = 2
  /\ HasDescendants(aXML) /\ HasDescendants(bXML)
  /\ aXML.children # bXML.children

\* the values an element carries for a token: its text for a content token,
\* its attribute for an attribute token
Carries(d, t, val) ==
  \E k \in 1..Len(Select(d, ElementPath(t.xpath))) :
    LET e == NodeAt(d, Select(d, ElementPath(t.xpath))[k])
    IN IF t.nodeType = "CONTENT" THEN e.text = val
       ELSE HasKey(e.attrs, t.name) /\ Val(e.attrs, t.name) = val

\* C8 (value presence): an attribute or content token carries newValue only
\* when INSERT, oldValue only when DELETE, both when CHANGE; oldValue is the
\* value of the old side and newValue the value of the new side.
C8_ValuePresence ==
  Returned =>
    \A t \in TokenSet :
      t.nodeType \in {"ATTRIBUTE", "CONTENT"} =>
        /\ ("oldValue" \in DOMAIN t) <=> NeedsOld(t)
        /\ ("newValue" \in DOMAIN t) <=> NeedsNew(t)
        /\ NeedsOld(t) => Carries(aXML, t, t.oldValue)
        /\ NeedsNew(t) => Carries(bXML, t, t.newValue)

C8_Witness ==
  /\ Returned
  /\ \E t \in TokenSet : t.nodeType = "ATTRIBUTE" /\ t.editType = "INSERT"
  /\ \E t \in TokenSet : t.nodeType = "ATTRIBUTE" /\ t.editType = "CHANGE"
  /\ \E t \in TokenSet : t.nodeType = "CONTENT" /\ t.editType = "CHANGE"

(* ===================== properties of the projector ==================== *)
Projected == rev # 0

\* an attribute list without its color attribute
NoColor(attrs) == SelectSeq(attrs, LAMBDA kv : kv[1] # "color")

RECURSIVE OnlyRecolored(_, _)
\* out is src but for the color attribute of colorable elements
OnlyRecolored(src, out) ==
  /\ out.name = src.name
  /\ out.text = src.text
  /\ IF src.name \in COLORABLE_ELEMENTS
     THEN NoColor(out.attrs) = NoColor(src.attrs)
     ELSE out.attrs = src.attrs
  /\ Len(out.children) = Len(src.children)
  /\ \A i \in 1..Len(src.children) : OnlyRecolored(src.children[i], out.children[i])

\* C9 (overlay purity): the returned documents are the inputs but for the
\* value of the color attribute of colorable elements.
C9_OverlayPurity ==
  Projected => OnlyRecolored(oldXmlStr, oldXml) /\ OnlyRecolored(newXmlStr, newXml)

\* the element a token addresses in a document, and its nearest colorable
\* ancestor-or-self
Addressed(doc, t) ==
  LET nodes == Select(doc, ElementPath(t.xpath))
  IN IF nodes = <<>> THEN Null ELSE Elem(nodes[1])
NearestColorable(doc, el) ==
  IF el = Null THEN Null
  ELSE LET ks == {k \in 0..Len(el[1]) :
                    NodeAt(doc, SubSeq(el[1], 1, k)).name \in COLORABLE_ELEMENTS}
       IN IF ks = {} THEN Null
          ELSE Elem(SubSeq(el[1], 1, CHOOSE k \in ks : \A m \in ks : m <= k))
ColorOf(doc, el) ==
  LET attrs == NodeAt(doc, el[1]).attrs
  IN IF HasKey(attrs, "color") THEN Val(attrs, "color") ELSE ""

\* C10 (element tokens): an ELEMENT INSERT (DELETE) token colors the nearest
\* colorable ancestor-or-self of the element it addresses in the new (old)
\* document green (red), and is unused exactly when there is none.  The color
\* is read after the last token, which no later token overwrites.
C10_ElementTokens ==
  Projected =>
    \A i \in 1..Len(inTokens) :
      LET t == inTokens[i]
          ins == t.editType = "INSERT"
          src == IF ins THEN newXmlStr ELSE oldXmlStr
          out == IF ins THEN newXml ELSE oldXml
          target == NearestColorable(src, Addressed(src, t))
      IN (t.nodeType = "ELEMENT" /\ t.editType \in {"INSERT", "DELETE"}) =>
           /\ (target = Null) <=> (t \in Range(unusedTokens))
           /\ (target # Null /\ i = Len(inTokens)) =>
                ColorOf(out, target) = (IF ins THEN COLOR_INSERT ELSE COLOR_DELETE)

\* C11 (attribute and content tokens): an ATTRIBUTE or CONTENT token colors
\* the nearest colorable ancestor-or-self of the element it addresses yellow,
\* in the old and in the new document independently, and is unused exactly
\* when neither document has one.  The color is read after the last token.
C11_AttrContentTokens ==
  Projected =>
    \A i \in 1..Len(inTokens) :
      LET t == inTokens[i]
          oldT == NearestColorable(oldXmlStr, Addressed(oldXmlStr, t))
          newT == NearestColorable(newXmlStr, Addressed(newXmlStr, t))
      IN t.nodeType \in {"ATTRIBUTE", "CONTENT"} =>
           /\ (oldT = Null /\ newT = Null) <=> (t \in Range(unusedTokens))
           /\ (oldT # Null /\ i = Len(inTokens)) => ColorOf(oldXml, oldT) = COLOR_CHANGE
           /\ (newT # Null /\ i = Len(inTokens)) => ColorOf(newXml, newT) = COLOR_CHANGE

RECURSIVE Uncolored(_)
\* a document without any color attribute
Uncolored(doc) ==
  [doc EXCEPT !.attrs = NoColor(@),
              !.children = [i \in 1..Len(@) |-> Uncolored(@[i])]]

\* the projector of revision r
Project(r, old, new, toks) ==
  IF r = 1 THEN processMusicXMLDiff(old, new, toks)
  ELSE processMusicXMLDiff_r2(old, new, toks)

\* what one token alone does to the input documents stripped of their colors
Alone(r, t) == Project(r, Uncolored(oldXmlStr), Uncolored(newXmlStr), <<t>>)

\* the token sets the color of some element
SetsColor(r, t) ==
  \/ Alone(r, t).oldXml # Uncolored(oldXmlStr)
  \/ Alone(r, t).newXml # Uncolored(newXmlStr)

\* C12 (unused tokens): unusedTokens is the input token list, in input order,
\* without the tokens that set the color of an element.
C12_UnusedTokens ==
  Projected => unusedTokens = SelectSeq(inTokens, LAMBDA t : ~SetsColor(rev, t))

C12_Witness ==
  /\ Projected /\ Len(inTokens) = 2 /\ inTokens[1] # inTokens[2]
  /\ unusedTokens = <<inTokens[2]>>
  /\ SetsColor(rev, inTokens[1])

\* the token's XPath selects no element of the document
Unresolved(doc, t) == Addressed(doc, t) = Null

\* the token list without its i-th token
Without(toks, i) == SubSeq(toks, 1, i - 1) \o SubSeq(toks, i + 1, Len(toks))

\* the token colors nothing, is reported unused, and the other tokens have the
\* effect they have without it
Skipped(i) ==
  /\ ~SetsColor(rev, inTokens[i])
  /\ inTokens[i] \in Range(unusedTokens)
  /\ oldXml = Project(rev, oldXmlStr, newXmlStr, Without(inTokens, i)).oldXml
  /\ newXml = Project(rev, oldXmlStr, newXmlStr, Without(inTokens, i)).newXml

\* C13 as stated (unresolvable tokens): a token whose XPath selects no element
\* in one or both documents changes neither document, is reported unused, and
\* the remaining tokens are processed.
C13_Unresolvable ==
  Projected =>
    \A i \in 1..Len(inTokens) :
      (Unresolved(oldXmlStr, inTokens[i]) \/ Unresolved(newXmlStr, inTokens[i]))
        => Skipped(i)

\* the token's XPath selects no element on any side the token is colored on:
\* the new document for an element INSERT, the old one for an element DELETE,
\* both for every other token
UnresolvedOnItsSides(t) ==
  IF t.nodeType = "ELEMENT" /\ t.editType = "INSERT" THEN Unresolved(newXmlStr, t)
  ELSE IF t.nodeType = "ELEMENT" /\ t.editType = "DELETE" THEN Unresolved(oldXmlStr, t)
  ELSE Unresolved(oldXmlStr, t) /\ Unresolved(newXmlStr, t)

\* C13 amended (unresolvable tokens): a token whose XPath selects no element
\* on the sides it is colored on changes neither document, is reported unused,
\* and the remaining tokens are processed.
C13_UnresolvableOnItsSides ==
  Projected =>
    \A i \in 1..Len(inTokens) : UnresolvedOnItsSides(inTokens[i]) => Skipped(i)

C13_Witness ==
  /\ Projected /\ Len(inTokens) = 2
  /\ UnresolvedOnItsSides(inTokens[1])
  /\ SetsColor(rev, inTokens[2])
  /\ unusedTokens = <<inTokens[1]>>

RECURSIVE Addrs(_)
\* the addresses of all elements of a document
Addrs(doc) ==
  {<<>>} \cup UNION { {<<i>> \o a : a \in Addrs(doc.children[i])}
                      : i \in 1..Len(doc.children) }

\* the color attributes of an element
ColorAttrs(doc, addr) ==
  SelectSeq(NodeAt(doc, addr).attrs, LAMBDA kv : kv[1] = "color")

\* the color a token alone writes on the element at addr, "" for none
Writes(r, t, old, addr) ==
  ColorOf(IF old THEN Alone(r, t).oldXml ELSE Alone(r, t).newXml, Elem(addr))

\* what each token of the list alone does, token by token
AloneAll == SubSeq([i \in 1..Len(inTokens) |-> Alone(rev, inTokens[i])],
                   1, Len(inTokens))

\* the colors the tokens alone write on the element at addr, token by token
WritesAll(alone, old, addr) ==
  SubSeq([i \in 1..Len(alone) |->
            ColorOf(IF old THEN alone[i].oldXml ELSE alone[i].newXml, Elem(addr))],
         1, Len(alone))

\* the last token that writes a color, 0 for none
LastWriter(w) ==
  IF \A i \in 1..Len(w) : w[i] = "" THEN 0
  ELSE CHOOSE i \in 1..Len(w) : w[i] # "" /\ \A k \in (i + 1)..Len(w) : w[k] = ""

ColoredOnce(alone, src, out, old) ==
  \A addr \in Addrs(src) :
    LET w == WritesAll(alone, old, addr)
        last == LastWriter(w)
    IN last # 0 =>
         /\ Len(ColorAttrs(out, addr)) = 1
         /\ ColorOf(out, Elem(addr)) \in {COLOR_INSERT, COLOR_DELETE, COLOR_CHANGE}
         /\ ColorOf(out, Elem(addr)) = w[last]

\* C14 (one color per element): an element colored by some token carries
\* exactly one color attribute, one of the three colors, written by the last
\* token in input order that colored the element.
C14_LastWriteWins ==
  Projected =>
    LET alone == AloneAll
    IN /\ ColoredOnce(alone, oldXmlStr, oldXml, TRUE)
       /\ ColoredOnce(alone, newXmlStr, newXml, FALSE)

\* an element that had a color is colored by two tokens with different colors
C14_Witness ==
  /\ Projected /\ Len(inTokens) = 2
  /\ \E addr \in Addrs(newXmlStr) :
       /\ ColorOf(newXmlStr, Elem(addr)) # ""
       /\ Writes(rev, inTokens[1], FALSE, addr) # ""
       /\ Writes(rev, inTokens[2], FALSE, addr) # ""
       /\ Writes(rev, inTokens[1], FALSE, addr) # Writes(rev, inTokens[2], FALSE, addr)

(* ====================== properties of the pipeline ==================== *)
\* b is a plus one colorable element added after a sibling of the same name
AddedLast(a, b) ==
  /\ Len(a.children) >= 1
  /\ Len(b.children) = Len(a.children) + 1
  /\ SubSeq(b.children, 1, Len(a.children)) = a.children
  /\ b.children[Len(b.children)].name \in COLORABLE_ELEMENTS
  /\ \E i \in 1..Len(a.children) :
       a.children[i].name = b.children[Len(b.children)].name

\* C15 (pipeline): when the new document is the old one plus one colorable
\* element added after same-name siblings, the projector applied to the diff's
\* tokens colors that added element green, colors no unchanged sibling, and
\* reports no unused token.
C15_PipelineInsert ==
  (Projected /\ inTokens = tokens /\ AddedLast(aXML, bXML)) =>
    /\ ColorOf(newXml, Elem(<<Len(bXML.children)>>)) = COLOR_INSERT
    /\ \A i \in 1..Len(aXML.children) :
         /\ ColorOf(newXml, Elem(<<i>>)) = ""
         /\ ColorOf(oldXml, Elem(<<i>>)) = ""
    /\ unusedTokens = <<>>

(* ================== properties of the cost functions ================== *)
RECURSIVE TrueCost(_), TrueCostSum(_)
\* 1 + |attrs| + (text nonempty ? 1 : 0) + the sum over the children
TrueCost(n) ==
  1 + Len(n.attrs) + (IF n.text # "" THEN 1 ELSE 0) + TrueCostSum(n.children)

TrueCostSum(cs) ==
  IF cs = <<>> THEN 0 ELSE TrueCost(Head(cs)) + TrueCostSum(Tail(cs))

\* C16 (subtreeCost): whatever calls came before, subtreeCost(n) returns
\* 1 + |n.attrs| + (n.text nonempty ? 1 : 0) + the sum of subtreeCost over n's
\* children, for a node of the old tree as for a node of the new tree.
C16_SubtreeCost ==
  fn = "subtreeCost" => (~ret.err /\ ret.v = TrueCost(arg[1]))

\* the smallest of three numbers
Min3(x, y, z) == IF x <= y /\ x <= z THEN x ELSE IF y <= z THEN y ELSE z

\* the attribute keys on which a and b differ, plus 1 if the texts differ
OwnDiff(a, b) ==
  Cardinality({k \in Range(Keys(a.attrs)) \cup Range(Keys(b.attrs)) :
                 ~(HasKey(a.attrs, k) /\ HasKey(b.attrs, k)
                   /\ Val(a.attrs, k) = Val(b.attrs, k))})
  + (IF a.text # b.text THEN 1 ELSE 0)

RECURSIVE AlignCost(_, _), OrderedCost(_, _)
\* the optimal order-preserving alignment of two child lists
AlignCost(as, bs) ==
  IF as = <<>> /\ bs = <<>> THEN 0
  ELSE IF as = <<>> THEN TrueCost(Head(bs)) + AlignCost(as, Tail(bs))
  ELSE IF bs = <<>> THEN TrueCost(Head(as)) + AlignCost(Tail(as), bs)
  ELSE Min3(TrueCost(Head(as)) + AlignCost(Tail(as), bs),
            TrueCost(Head(bs)) + AlignCost(as, Tail(bs)),
            OrderedCost(Head(as), Head(bs)) + AlignCost(Tail(as), Tail(bs)))

OrderedCost(a, b) ==
  IF a.name # b.name THEN INF
  ELSE OwnDiff(a, b) + AlignCost(a.children, b.children)

\* C17 (computeCost): computeCost(a, b), called first in a diff, returns the
\* differing attribute keys, plus 1 if the texts differ, plus the optimal
\* order-preserving alignment cost of the children; the infinity sentinel for
\* nodes of different names.
C17_OrderedAlignment ==
  (fn = "computeCost" /\ costCalls = 1) =>
    (~ret.err /\ ret.v = OrderedCost(arg[1], arg[2]))

(* ================= further properties of the diff ===================== *)
\* C18 (tables released): when a call has returned or thrown, both
\* memoization tables are empty.
C18_TablesReleased ==
  Done => (subtreeCostMemo = EmptyMap /\ pairCostMemo = EmptyMap)

\* the path of the root's children named X
ChildPath(X) == <<ElemSeg(aXML.name), ElemSeg(X)>>

\* the indices of the tokens at, or below, the root's children named X
TokensAt(X) == {i \in 1..Len(tokens) : tokens[i].xpath = ChildPath(X)}
TokensBelow(X) ==
  {i \in 1..Len(tokens) :
     /\ Len(tokens[i].xpath) > 2
     /\ SubSeq(tokens[i].xpath, 1, 2) = ChildPath(X)}
Edits(X, e) == {i \in TokensAt(X) : tokens[i].editType = e}

OnSide(t, new) ==
  \/ Len(t.xpath) > 2
  \/ t.editType = "CHANGE"
  \/ t.editType = (IF new THEN "INSERT" ELSE "DELETE")

\* the positions of the children named X
Positions(d, X) == {k \in 1..Len(d.children) : d.children[k].name = X}

\* tokens about two children of one side, each the only child of its name,
\* come in the order of the children
InChildOrder(d, new) ==
  \A i, j \in 1..Len(tokens) :
    LET X == tokens[i].xpath[2].name
        Y == tokens[j].xpath[2].name
    IN (/\ i < j /\ X # Y
        /\ OnSide(tokens[i], new) /\ OnSide(tokens[j], new)
        /\ Cardinality(Positions(d, X)) = 1 /\ Cardinality(Positions(d, Y)) = 1)
       => \A x \in Positions(d, X), y \in Positions(d, Y) : x < y

\* the rank of a token among those of one matched pair
Rank(t) ==
  IF Len(ElementPath(t.xpath)) > 2 THEN 3
  ELSE IF t.nodeType = "ATTRIBUTE" THEN 1
  ELSE IF t.nodeType = "CONTENT" THEN 2 ELSE 3

\* C20 (token order): for a matched pair the attribute tokens come first, then
\* the content token, then the children's tokens; the tokens of the children
\* come in the left-to-right order of the children, not grouped by tag name.
C20_TokenOrder ==
  (Returned /\ aXML.name = bXML.name) =>
    /\ InChildOrder(aXML, FALSE)
    /\ InChildOrder(bXML, TRUE)
    /\ \A X \in Range(GroupNames(aXML, bXML)) :
         (Cardinality(Positions(aXML, X)) = 1 /\ Cardinality(Positions(bXML, X)) = 1)
           => \A i, j \in TokensBelow(X) :
                i < j => Rank(tokens[i]) <= Rank(tokens[j])

(* ================== properties of the child planner =================== *)
\* all children of both roots carry one tag name, and both roots have some:
\* the diff of the roots then runs one assignment, from cleared tables
OneGroup ==
  /\ aXML.name = bXML.name
  /\ aXML.children # <<>> /\ bXML.children # <<>>
  /\ \A i \in 1..Len(aXML.children), j \in 1..Len(bXML.children) :
       /\ aXML.children[i].name = aXML.children[1].name
       /\ bXML.children[j].name = aXML.children[1].name

\* the matrix of that assignment, with the tables it leaves, and the
\* assignment chosen
Plan == diffMatrix(TreeA.children, TreeB.children, 0, <<>>, Start(FreshGlobals))
Assigned == hungarian(Plan.v)

\* the old children (1-based) assigned to a new child
Pairs ==
  {i \in 1..Len(aXML.children) : Assigned[i] \in 1..Len(bXML.children)}

\* pairCost and delIns for the old child i and the new child assigned to it,
\* as line 387 and line 388 compute them after the matrix has been filled
PairCostOf(i) == Plan.v[i][Assigned[i]]
DelInsOf(i) ==
  Plan.sm[TreeA.children[i].id] + Plan.sm[TreeB.children[Assigned[i]].id]

\* the ELEMENT tokens with edit type e for the root's children
ChildTokens(e) == Edits(aXML.children[1].name, e)

\* the cost in the matrix of deleting the old child i (its row's first column
\* past the new children), and of inserting the new child j
DeleteCost(i) == Plan.v[i][Len(bXML.children) + 1]
InsertCost(j) == Plan.v[Len(aXML.children) + 1][j]

\* one old child and one new child of the same name, for which the matrix
\* prices the match as high as the delete plus the insert
TieCase ==
  /\ OneGroup /\ Len(aXML.children) = 1 /\ Len(bXML.children) = 1
  /\ Plan.v[1][1] = DeleteCost(1) + InsertCost(1)

\* C21 (ties): when matching an old child with a same-name new child costs
\* exactly as much as deleting the one and inserting the other, the pair is
\* matched: no ELEMENT DELETE and ELEMENT INSERT is emitted for it.
C21_TiePrefersMatch ==
  (Returned /\ TieCase) =>
    (ChildTokens("DELETE") = {} /\ ChildTokens("INSERT") = {})

(* ===================== properties of hungarian ======================== *)
\* the assignments that give every row a column of its own
Perms(n) == {f \in [1..n -> 1..n] : \A r1, r2 \in 1..n : r1 # r2 => f[r1] # f[r2]}

RECURSIVE Total(_, _, _)
\* the cost of the rows r..n under the assignment f
Total(cost, f, r) ==
  IF r > Len(cost) THEN 0 ELSE cost[r][f[r]] + Total(cost, f, r + 1)

\* C22 (hungarian): for a square matrix of non-negative finite costs the
\* returned assignment gives every row a distinct column, none null, and its
\* total cost is the minimum over all permutations.
C22_OptimalAssignment ==
  fn = "hungarian" =>
    /\ ret.v \in Perms(Len(arg[1]))
    /\ \A f \in Perms(Len(arg[1])) : Total(arg[1], ret.v, 1) <= Total(arg[1], f, 1)

\* a matrix on which neither the identity nor the choice of each row's
\* cheapest column is an optimal assignment
C22_Witness ==
  /\ fn = "hungarian" /\ Len(arg[1]) = MaxDim
  /\ Total(arg[1], ret.v, 1) < Total(arg[1], hungarianIdentity(arg[1]), 1)
  /\ \E r \in 1..MaxDim : \E j \in 1..MaxDim : arg[1][r][j] < arg[1][r][ret.v[r]]

(* ================= soundness of the empty diff ======================== *)
RECURSIVE EqualTrees(_, _)
\* same name, equal attribute maps, equal text, equal child sequences
EqualTrees(a, b) ==
  /\ a.name = b.name
  /\ Range(a.attrs) = Range(b.attrs)
  /\ a.text = b.text
  /\ Len(a.children) = Len(b.children)
  /\ \A i \in 1..Len(a.children) : EqualTrees(a.children[i], b.children[i])

\* C23 (empty diff): if a call returns the empty list, the two documents are
\* equal trees: same root name and, recursively, equal attributes, equal text
\* and equal ordered child sequences.
C23_EmptyDiffMeansEqual ==
  (Returned /\ tokens = <<>>) => EqualTrees(aXML, bXML)

(* ================== accounting of the children ======================== *)
\* one call of the public API on two documents with the same root name
InitMatch == InitDiff(CostDocs)
NextMatch == ComputeXMLDiffTokens
SpecMatch == InitMatch /\ [][NextMatch]_vars


\* the tag names of the roots' children, in the order diffNodes visits them
Names == GroupNames(aXML, bXML)

\* the old and the new children of the k-th name
OldOf(k) == Group(TreeA.children, Names[k])
NewOf(k) == Group(TreeB.children, Names[k])

\* the state in which diffNodes reaches the k-th name: the tables as the
\* names before it have left them
StateAt(k) ==
  diffGroups(TreeA, TreeB, <<ElemSeg(aXML.name)>>, SubSeq(Names, 1, k - 1),
             Start(FreshGlobals))

\* the assignment computed for the k-th name, <<>> when one side has no child
\* of that name and no assignment is computed
AssignedAt(k) ==
  IF OldOf(k) = <<>> \/ NewOf(k) = <<>> THEN <<>>
  ELSE hungarian(diffMatrix(OldOf(k), NewOf(k), 0, <<>>, StateAt(k)).v)

\* the old children of the k-th name that the assignment pairs with a new
\* child (matched or replaced), and the new children an old child is paired with
OldPaired(k, assign) ==
  {i \in 1..Len(OldOf(k)) : assign # <<>> /\ assign[i] \in 1..Len(NewOf(k))}
NewPaired(k, assign) ==
  {j \in 1..Len(NewOf(k)) : \E i \in OldPaired(k, assign) : assign[i] = j}

\* the k-th name's children are accounted for once: the ELEMENT DELETE tokens
\* and the paired old children make up the old children, the ELEMENT INSERT
\* tokens and the paired new children the new children
Accounted(k, assign) ==
  /\ Cardinality(Edits(Names[k], "DELETE")) + Cardinality(OldPaired(k, assign))
       = Len(OldOf(k))
  /\ Cardinality(Edits(Names[k], "INSERT")) + Cardinality(NewPaired(k, assign))
       = Len(NewOf(k))
  /\ Cardinality(OldPaired(k, assign)) = Cardinality(NewPaired(k, assign))

\* C24 (children accounted for once): for every tag name among the roots'
\* children, the ELEMENT DELETE tokens at that path plus the old children
\* paired with a new child are the old children of that name, and the
\* ELEMENT INSERT tokens plus the paired new children are the new children.
C24_ChildrenAccounted ==
  (Returned /\ aXML.name = bXML.name) =>
    \A k \in 1..Len(Names) :
      Accounted(k, SubSeq(AssignedAt(k), 1, Len(AssignedAt(k))))

\* of two old children of one name one is paired and one deleted, while the
\* paired one has edits below it
C24_Witness ==
  /\ Returned /\ aXML.name = bXML.name
  /\ \E k \in 1..Len(Names) :
       /\ Len(OldOf(k)) = 2 /\ Len(NewOf(k)) = 1
       /\ Cardinality(Edits(Names[k], "DELETE")) = 1
       /\ TokensBelow(Names[k]) # {}
       /\ Cardinality(OldPaired(k, AssignedAt(k))) = 1

====
